---- MODULE Spec2Model ----
(***************************************************************************)
(* A model of the runtime bridge of nostalgist: the Emulator class of      *)
(* src/src/emulator.ts (command channel, file-ready poller, lifecycle      *)
(* controller) together with the embedded program and the virtual          *)
(* filesystem it talks to.                                                 *)
(*                                                                         *)
(* SpecChannel: sendCommand and stdin, byte by byte.                       *)
(* SpecChannelPolled: the same, the program polling stdin for ever.        *)
(* Spec:        the synchronous operations and one launch() at a time.     *)
(* SpecLaunch:  overlapping launch() calls.                                *)
(* SpecPoller:  one waitForEmscriptenFile call beside arbitrary writers.   *)
(* SpecState:   saveState() and loadState() on a launched session, one at  *)
(*              a time, beside the program that writes the files.          *)
(* SpecRoundTrip: saveState(), loadState(state), saveState() of one host.  *)
(* SpecOverlap: two saveState() calls made in one turn.                    *)
(* SpecStaging: launch() with any lists of ROM and BIOS files.             *)
(* SpecPaths:   the paths of the state file and of its thumbnail.          *)
(* SpecFacade:  Nostalgist.launch() of src/unnamed/part_000 and the signal *)
(*              of its options, up to the launch of the emulator.          *)
(* SpecConfig:  launch() with the configuration mappings a host supplies.  *)
(*                                                                         *)
(* The Emulator is modelled with the options it reads (options.retroarch,  *)
(* a non-empty options.rom); the directories of the state path exist once  *)
(* /home is mounted.                                                       *)
(***************************************************************************)
EXTENDS Integers, Sequences, FiniteSets, TLC

VARIABLES
  messageQueue,   \* Emulator.messageQueue: sequence of <<bytes, index>>
  gameStatus,     \* Emulator.gameStatus
  processStatus,  \* Emulator.processStatus ("unset" until exit() assigns it)
  emscripten,     \* Emulator.emscripten: 0 = undefined, m > 0 = the m-th module
  waitForInteraction, \* options.waitForInteraction is supplied
  modules,        \* number of embedded modules instantiated so far
  asm,            \* asm[m]: Module.asm of module m is set (wasm instantiated)
  mounted,        \* mounted[m]: /home is a mount point in the FS of module m
  mainCalls,      \* mainCalls[m]: invocations of Module.callMain of module m
  launchCalls,    \* number of launch() calls so far
  launchPc,       \* launchPc[l]: where launch call l is suspended
  launchMod,      \* launchMod[l]: the module whose FS call l's setupFileSystem holds
  waitTime,       \* waitTime[l]: the local of setupFileSystem's wait loop
  sent,           \* history: the commands passed to sendCommand, in call order
  delivered,      \* history: the non-null bytes returned by stdin, in order
  lastByte,       \* the value returned by the latest stdin() call
  lastOp,         \* the latest controller operation and how it ended
  pfile,          \* poller alone: the file at the watched path
  poll,           \* poller alone: the locals of one waitForEmscriptenFile call
  attempts,       \* poller alone: FS.readFile calls made so far
  lastRead,       \* poller alone: what the latest FS.readFile call found
  lastGood,       \* poller alone: what the latest FS.readFile call that did not throw found
  supplied,       \* the configuration mapping the host supplied as options.retroarch
  retroarch,      \* options.retroarch as it is now
  cfgFile,        \* cfgFile[m]: the lines of retroarch.cfg in the FS of module m
  stateFile,      \* stateFile[m]: the file at stateFileName in the FS of module m
  thumbFile,      \* thumbFile[m]: the file at stateThumbnailFileName, likewise
  calls,          \* calls[k]: the saveState() or loadState() call in flight in slot k
  prog,           \* the embedded program: its checkpoint and the files it still has to write
  host,           \* the host's script, where one is followed: its position and what it holds
  assets,         \* options.rom and options.bios: sequences of {fileName, fileContent};
                  \* options.core.name
  staged,         \* staged[m]: the content and system directories in the FS of module m
  stage,          \* stage[l]: the staging tasks of launch call l that await their buffer
  paths,          \* paths[op]: the paths operation op has computed, empty before
  facade,         \* Nostalgist.launch(): its position, the signal and the files it resolves
  mainArgs        \* mainArgs[m]: the arguments of the latest Module.callMain of module m

histVars == <<sent, delivered, lastByte>>
ctlVars == <<gameStatus, processStatus, lastOp>>
modVars == <<emscripten, waitForInteraction, modules, asm, mounted, mainCalls>>
launchVars == <<launchCalls, launchPc, launchMod, waitTime>>
pollVars == <<pfile, poll, attempts, lastRead, lastGood>>
fsVars == <<cfgFile, stateFile, thumbFile>>
stateVars == <<supplied, retroarch, fsVars, calls, prog, host>>
stageVars == <<assets, staged, stage, paths, facade, mainArgs>>
vars == <<messageQueue, histVars, ctlVars, modVars, launchVars, pollVars, stateVars,
          stageVars>>

----------------------------------------------------------------------------
(* Bounds of the model *)

\* sendCommand calls recorded in one behaviour of the channel specification
MaxSent == 3

\* entries the command queue may hold before the host stops issuing commands
MaxQueue == 2

\* launch() calls in one behaviour
MaxLaunches == 2

\* the longest file content, in bytes
MaxFileLen == 2

----------------------------------------------------------------------------
(* Command channel: sendCommand and stdin *)

\* the value stdin returns when there is no input
Null == -1

\* the members of RetroArchCommand the model uses
Commands == {"PAUSE_TOGGLE", "RESET", "SAVE_STATE", "LOAD_STATE", "MUTE"}

\* the characters of a command name
Chars(msg) ==
  CASE msg = "PAUSE_TOGGLE" -> <<"P", "A", "U", "S", "E", "_", "T", "O", "G", "G", "L", "E">>
    [] msg = "RESET"        -> <<"R", "E", "S", "E", "T">>
    [] msg = "SAVE_STATE"   -> <<"S", "A", "V", "E", "_", "S", "T", "A", "T", "E">>
    [] msg = "LOAD_STATE"   -> <<"L", "O", "A", "D", "_", "S", "T", "A", "T", "E">>
    [] msg = "MUTE"         -> <<"M", "U", "T", "E">>

\* UTF-8 code of a character (all of them ASCII here)
CharCode(c) ==
  CASE c = "A" -> 65 [] c = "D" -> 68 [] c = "E" -> 69 [] c = "G" -> 71
    [] c = "L" -> 76 [] c = "M" -> 77 [] c = "O" -> 79 [] c = "P" -> 80
    [] c = "R" -> 82 [] c = "S" -> 83 [] c = "T" -> 84 [] c = "U" -> 85
    [] c = "V" -> 86 [] c = "_" -> 95 [] c = "\n" -> 10

\* an encoding that leaves the line end out
EncodeBare(msg) == [i \in 1..Len(Chars(msg)) |-> CharCode(Chars(msg)[i])]

\* encoder.encode(`${msg}\n`)
Encode(msg) ==
  LET text == Chars(msg) \o <<"\n">>
  IN  [i \in 1..Len(text) |-> CharCode(text[i])]

\* a sendCommand that puts the new entry at the front of the queue
sendCommandAtFront(q, msg) == <<<<Encode(msg), 0>>>> \o q

\* sendCommand(msg): push [bytes, 0] on the tail of the queue
sendCommand(q, msg) == Append(q, <<Encode(msg), 0>>)

\* the loop of stdin(): shift the front entries whose index has reached their length
RECURSIVE ShiftConsumed(_)
ShiftConsumed(q) ==
  IF q # <<>> /\ q[1][2] >= Len(q[1][1]) THEN ShiftConsumed(Tail(q)) ELSE q

\* a stdin() that advances the front entry without looking at its length
stdinQueueNoShift(q) ==
  IF q = <<>> THEN q ELSE [q EXCEPT ![1] = <<q[1][1], q[1][2] + 1>>]

\* the queue stdin() leaves behind
stdinQueue(q) ==
  LET d == ShiftConsumed(q)
  IN  IF d = <<>> THEN d ELSE [d EXCEPT ![1] = <<d[1][1], d[1][2] + 1>>]

\* a stdin() that answers null in place of the last byte of every entry
stdinResultNoNewline(q) ==
  LET d == ShiftConsumed(q)
  IN  IF d = <<>> \/ d[1][2] + 1 = Len(d[1][1]) THEN Null ELSE d[1][1][d[1][2] + 1]

\* the value stdin() returns: msg[index] (index counts from 0), or null
stdinResult(q) ==
  LET d == ShiftConsumed(q)
  IN  IF d = <<>> THEN Null ELSE d[1][1][d[1][2] + 1]

\* a host call of sendCommand, recorded in the history
SendCommand(msg) ==
  /\ Len(sent) < MaxSent
  /\ messageQueue' = sendCommand(messageQueue, msg)
  /\ sent' = Append(sent, msg)
  /\ UNCHANGED <<delivered, lastByte>>
  /\ UNCHANGED <<ctlVars, modVars, launchVars, pollVars, stateVars, stageVars>>

\* the embedded program polls for the next byte, recorded in the history
Stdin ==
  /\ messageQueue' = stdinQueue(messageQueue)
  /\ lastByte' = stdinResult(messageQueue)
  /\ delivered' = IF stdinResult(messageQueue) = Null
                  THEN delivered
                  ELSE Append(delivered, stdinResult(messageQueue))
  /\ UNCHANGED sent
  /\ UNCHANGED <<ctlVars, modVars, launchVars, pollVars, stateVars, stageVars>>

\* the state after `new Emulator(options)`
NoOp == [op |-> "none", threw |-> FALSE]

\* the byte values of file contents
Byte == {0, 1}

\* the contents a file may have: byte sequences of length 0..MaxFileLen
Contents == UNION {[1..n -> Byte] : n \in 0..MaxFileLen}

\* a path of the virtual filesystem: no file, or a file and its bytes
NoFile == [exists |-> FALSE, data |-> <<>>]
FileOf(c) == [exists |-> TRUE, data |-> c]
Files == {NoFile} \cup {FileOf(c) : c \in Contents}

\* a JavaScript value with the text String(value) gives
JsBoolean(b) ==
  [type |-> "boolean",
   text |-> IF b THEN <<"t", "r", "u", "e">> ELSE <<"f", "a", "l", "s", "e">>]
JsString(chars) == [type |-> "string", text |-> chars]
JsNumber(digits) == [type |-> "number", text |-> digits]
JsUndefined ==
  [type |-> "undefined", text |-> <<"u", "n", "d", "e", "f", "i", "n", "e", "d">>]

\* what `if (value)` takes the value for
Truthy(v) ==
  CASE v.type = "boolean" -> v.text = <<"t", "r", "u", "e">>
    [] v.type = "string" -> v.text # <<>>
    [] v.type = "number" -> v.text # <<"0">>
    [] OTHER -> FALSE

ThumbnailKey ==
  <<"s", "a", "v", "e", "s", "t", "a", "t", "e", "_", "t", "h", "u", "m", "b",
    "n", "a", "i", "l", "_", "e", "n", "a", "b", "l", "e">>

\* a configuration mapping is the sequence of its entries, in insertion order
Entry(k, v) == [key |-> k, value |-> v]

\* config[key], undefined when the key is missing
Lookup(config, k) ==
  IF \E i \in DOMAIN config : config[i].key = k
  THEN config[CHOOSE i \in DOMAIN config : config[i].key = k].value
  ELSE JsUndefined

\* the mapping defaultRetroarchConfig gives when the host says nothing
DefaultConfig == <<Entry(ThumbnailKey, JsBoolean(TRUE))>>

\* the mappings a host supplies
Configs ==
  {<<>>, DefaultConfig, <<Entry(ThumbnailKey, JsBoolean(FALSE))>>}

\* mappings with values of every type: {a: true, b: 4, c: 'x'}, and one whose
\* value has two underscores in a row, {c: 'x__y'}
SuppliedConfigs ==
  Configs \cup
    {<<Entry(<<"a">>, JsBoolean(TRUE)), Entry(<<"b">>, JsNumber(<<"4">>)),
       Entry(<<"c">>, JsString(<<"x">>))>>,
     <<Entry(<<"c">>, JsString(<<"x", "_", "_", "y">>))>>}

\* writeConfigFile's loop: config[key] = `__${config[key]}__`, in the mapping
\* it was given
wrapConfig(config) ==
  [i \in DOMAIN config |->
     Entry(config[i].key, JsString(<<"_", "_">> \o config[i].value.text \o <<"_", "_">>))]

\* ini.stringify(config, {whitespace: true}) of a flat mapping whose keys and
\* values need no escaping: one line `key = value` per entry
stringify(config) ==
  [i \in DOMAIN config |-> config[i].key \o <<" ", "=", " ">> \o config[i].value.text]

\* line.replaceAll('__', '"'), scanning from the left
RECURSIVE replaceAll(_)
replaceAll(line) ==
  IF Len(line) < 2 THEN line
  ELSE IF line[1] = "_" /\ line[2] = "_"
       THEN <<"\"">> \o replaceAll(SubSeq(line, 3, Len(line)))
       ELSE <<line[1]>> \o replaceAll(Tail(line))

\* the lines FS.writeFile(path, configContent) writes, given the wrapped mapping
configContent(config) == [i \in DOMAIN config |-> replaceAll(stringify(config)[i])]

NoConfigFile == [exists |-> FALSE, lines |-> <<>>]
ConfigFile(lines) == [exists |-> TRUE, lines |-> lines]

\* RetroArch saves a thumbnail beside a state when its configuration file says
\* savestate_thumbnail_enable = "true"
thumbnailsOn(file) ==
  /\ file.exists
  /\ \E i \in DOMAIN file.lines :
       file.lines[i] = ThumbnailKey \o <<" ", "=", " ", "\"", "t", "r", "u", "e", "\"">>

----------------------------------------------------------------------------
(* ROM and BIOS assets and the directories they are staged in *)

\* most files in options.rom and in options.bios
MaxRoms == 2
MaxBios == 1

\* file names, as the characters of a string
Pong1k == <<"p", "o", "n", "g", "1", "k", ".", "n", "e", "s">>
RomBin == <<"r", "o", "m", ".", "b", "i", "n">>
FileNames == {Pong1k, RomBin}

\* the bytes of a blob
Blobs == {<<0>>, <<1>>}

\* { fileName, fileContent }: a resolved file of options.rom or options.bios
Asset(name, blob) == [fileName |-> name, fileContent |-> blob]
AssetLists(n) ==
  UNION {[1..k -> {Asset(name, blob) : name \in FileNames, blob \in Blobs}] : k \in 0..n}

\* the options of a launch of core fceumm with ROM 'pong1k.nes' and one BIOS
DefaultAssets ==
  [rom |-> <<Asset(Pong1k, <<1>>)>>, bios |-> <<Asset(RomBin, <<0>>)>>, core |-> "fceumm"]

\* blobToBuffer(blob): a buffer of the blob's bytes
blobToBuffer(blob) == blob

\* the directories content/ and system/ under raUserdataDir, empty
NoDirectories == [content |-> <<>>, system |-> <<>>]

\* FS.writeFile(`${dir}${fileName}`, data): the file is created or replaced
writeFile(dir, fileName, data) ==
  [n \in (DOMAIN dir) \cup {fileName} |-> IF n = fileName THEN FileOf(data) ELSE dir[n]]

\* a task of setupFileSystem once its buffer has arrived: FS.createDataFile
\* at the root, FS.readFile of it, FS.writeFile under dir, FS.unlink
stageAsset(dir, asset) ==
  LET buffer == blobToBuffer(asset.fileContent)
      created == FileOf(buffer)
      data == created.data
  IN  writeFile(dir, asset.fileName, data)

\* the directory after the tasks of a list have run in the list's order
RECURSIVE stageList(_, _)
stageList(dir, list) ==
  IF list = <<>> THEN dir ELSE stageList(stageAsset(dir, list[1]), Tail(list))

\* the directories after setupFileSystem with tasks run in the lists' order
stagedAll(a) ==
  [content |-> stageList(<<>>, a.rom), system |-> stageList(<<>>, a.bios)]

\* a Nostalgist whose launch() has not run; its signal is not aborted
NoFacade == [pc |-> "new", aborted |-> FALSE, abortedAt |-> "never", pending |-> {}, error |-> ""]

\* clearStateFile, saveState and loadState, none of which has computed a path
NoPaths ==
  [op \in {"clearStateFile", "saveState", "loadState"} |-> [state |-> <<>>, thumbnail |-> <<>>]]

\* the host supplies the default assets
InitDefaultAssets == assets = DefaultAssets

\* a waitForEmscriptenFile call that is not running
NoPoller ==
  [retryTimes |-> 0, buffer |-> [set |-> FALSE, data |-> <<>>], isFinished |-> FALSE,
   delay |-> 0, pc |-> "none"]

\* what a saveState() or loadState() call settled with
NoResult ==
  [kind |-> "none", error |-> "", state |-> <<>>, thumbnail |-> [set |-> FALSE, data |-> <<>>]]

\* a free call slot: no saveState() or loadState() is in flight in it
NoCall ==
  [op |-> "none", pc |-> "idle", fs |-> 0, waitsThumbnail |-> FALSE, p1 |-> NoPoller,
   p2 |-> NoPoller, bytes |-> <<>>, wrote |-> FALSE, result |-> NoResult]

\* the embedded program at checkpoint c, with nothing to write
Program(c) == [checkpoint |-> c, todo |-> {}, image |-> <<>>, written |-> 0]

\* a host that follows no script
NoScript == [pc |-> "free", state |-> <<>>]

\* the saveState() and loadState() calls that may be in flight together
CallSlots == 1..2

Modules == 1..MaxLaunches
LaunchCalls == 1..2

InitEmulator ==
  /\ messageQueue = <<>>
  /\ gameStatus = "initial"
  /\ processStatus = "unset"
  /\ emscripten = 0
  /\ modules = 0
  /\ asm = [m \in Modules |-> FALSE]
  /\ mounted = [m \in Modules |-> FALSE]
  /\ mainCalls = [m \in Modules |-> 0]
  /\ launchCalls = 0
  /\ launchPc = [l \in LaunchCalls |-> "idle"]
  /\ launchMod = [l \in LaunchCalls |-> 0]
  /\ waitTime = [l \in LaunchCalls |-> 0]
  /\ sent = <<>>
  /\ delivered = <<>>
  /\ lastByte = Null
  /\ lastOp = NoOp
  /\ cfgFile = [m \in Modules |-> NoConfigFile]
  /\ stateFile = [m \in Modules |-> NoFile]
  /\ thumbFile = [m \in Modules |-> NoFile]
  /\ calls = [k \in CallSlots |-> NoCall]
  /\ prog = Program(<<>>)
  /\ host = NoScript
  /\ staged = [m \in Modules |-> NoDirectories]
  /\ stage = [l \in LaunchCalls |-> {}]
  /\ paths = NoPaths
  /\ facade = NoFacade
  /\ mainArgs = [m \in Modules |-> <<>>]

\* no waitForEmscriptenFile call is modelled alone
InitNoPoller ==
  /\ pfile = NoFile
  /\ poll = NoPoller
  /\ attempts = 0
  /\ lastRead = NoFile
  /\ lastGood = NoFile

\* the host supplies the default configuration
InitDefaultConfig ==
  /\ supplied = DefaultConfig
  /\ retroarch = supplied

InitChannel ==
  /\ InitEmulator
  /\ InitNoPoller
  /\ InitDefaultConfig
  /\ InitDefaultAssets
  /\ waitForInteraction = FALSE

NextChannel ==
  \/ \E msg \in Commands : SendCommand(msg)
  \/ Stdin

SpecChannel == InitChannel /\ [][NextChannel]_vars

\* the channel when the embedded program keeps polling its standard input:
\* a stdin() call that would change the state is eventually made
SpecChannelPolled == SpecChannel /\ WF_vars(Stdin)

----------------------------------------------------------------------------
(* Lifecycle controller: the synchronous operations *)

\* the byte sequences an operation pushed on the queue
Appended(q, q2) == [i \in 1..(Len(q2) - Len(q)) |-> q2[Len(q) + i][1]]

\* the record of an operation that has just run: its name and whether it threw
OpRecord(name, didThrow) == [op |-> name, threw |-> didThrow]

\* resume(): toggle only when paused; the status becomes running
resumeQueue(q, status) ==
  IF status = "paused" THEN sendCommand(q, "PAUSE_TOGGLE") ELSE q

\* a restart() that resumes first and resets afterwards
restartQueueResumeFirst(q, status) == sendCommand(resumeQueue(q, status), "RESET")

\* restart(): RESET, then resume()
restartQueue(q, status) == resumeQueue(sendCommand(q, "RESET"), status)

\* a pause() that sends the toggle whatever the status
pauseQueueAlways(q, status) == sendCommand(q, "PAUSE_TOGGLE")

\* pause(): toggle only when running; the status becomes paused
pauseQueue(q, status) ==
  IF status = "running" THEN sendCommand(q, "PAUSE_TOGGLE") ELSE q

\* the program's read of its standard input: the input callback is called
\* until it answers null, so every queued byte is taken
RECURSIVE Drain(_)
Drain(q) == IF stdinResult(q) = Null THEN stdinQueue(q) ELSE Drain(stdinQueue(q))

\* the running program reads its standard input (no history kept)
ProgramRead ==
  /\ \E m \in Modules : mainCalls[m] > 0
  /\ messageQueue # <<>>
  /\ messageQueue' = Drain(messageQueue)
  /\ lastByte' = stdinResult(messageQueue')
  /\ UNCHANGED <<sent, delivered, ctlVars, modVars, launchVars, pollVars, stateVars, stageVars>>

Resume ==
  /\ lastOp' = OpRecord("resume", FALSE)
  /\ gameStatus' = "running"
  /\ Len(messageQueue) < MaxQueue
  /\ messageQueue' = resumeQueue(messageQueue, gameStatus)
  /\ UNCHANGED <<processStatus, histVars, pollVars, stateVars, stageVars, modVars, launchVars>>

Restart ==
  /\ lastOp' = OpRecord("restart", FALSE)
  /\ gameStatus' = "running"
  /\ Len(restartQueue(messageQueue, gameStatus)) <= MaxQueue
  /\ messageQueue' = restartQueue(messageQueue, gameStatus)
  /\ UNCHANGED <<processStatus, histVars, pollVars, stateVars, stageVars, modVars, launchVars>>

Pause ==
  /\ lastOp' = OpRecord("pause", FALSE)
  /\ gameStatus' = "paused"
  /\ Len(messageQueue) < MaxQueue
  /\ messageQueue' = pauseQueue(messageQueue, gameStatus)
  /\ UNCHANGED <<processStatus, histVars, pollVars, stateVars, stageVars, modVars, launchVars>>

\* the host's sendCommand(msg)
SendCommandOp(msg) ==
  /\ Len(messageQueue) < MaxQueue
  /\ messageQueue' = sendCommand(messageQueue, msg)
  /\ lastOp' = OpRecord("sendCommand", FALSE)
  /\ UNCHANGED <<gameStatus, processStatus, histVars, pollVars, stateVars, stageVars, modVars, launchVars>>

\* resize(width, height): destructuring this.emscripten throws while it is undefined
resizeThrows(e) == e = 0

Resize ==
  /\ lastOp' = OpRecord("resize", resizeThrows(emscripten))
  /\ UNCHANGED <<messageQueue, gameStatus, processStatus, histVars, pollVars, stateVars, stageVars, modVars, launchVars>>

\* exit(): FS.unmount('/home') throws when /home is no mount point
exitThrows(e, mnt) == e # 0 /\ ~mnt[e]

Exit ==
  /\ processStatus' = "terminated"
  /\ mounted' = IF emscripten # 0 THEN [mounted EXCEPT ![emscripten] = FALSE] ELSE mounted
  /\ lastOp' = OpRecord("exit", exitThrows(emscripten, mounted))
  /\ UNCHANGED <<messageQueue, gameStatus, histVars, pollVars, stateVars, stageVars, emscripten, waitForInteraction,
                 modules, asm, mainCalls, launchVars>>

----------------------------------------------------------------------------
(* Lifecycle controller: launch() *)

\* setupFileSystem's wait: at most maxWaitTime / 5 delays of 10 ms
maxWaitTime == 100

\* launch() is called: setupEmscripten runs up to `await import(jsBlobUrl)`
emulatorLaunch(l) ==
  /\ launchPc[l] = "idle"
  /\ launchCalls < MaxLaunches
  /\ launchCalls' = launchCalls + 1
  /\ launchPc' = [launchPc EXCEPT ![l] = "import"]
  /\ lastOp' = OpRecord("launch", FALSE)
  /\ UNCHANGED <<messageQueue, gameStatus, processStatus, histVars, pollVars, stateVars, assets,
                 staged, stage, paths, mainArgs, modVars, launchMod, waitTime>>

\* launch() called on the emulator itself
LaunchCall(l) ==
  /\ emulatorLaunch(l)
  /\ UNCHANGED facade

\* the import resolves: this.emscripten = getEmscripten(...), a new module;
\* setupFileSystem runs up to `await createEmscriptenFS(...)`
LaunchImported(l) ==
  /\ launchPc[l] = "import"
  /\ modules' = modules + 1
  /\ emscripten' = modules + 1
  /\ launchMod' = [launchMod EXCEPT ![l] = modules + 1]
  /\ launchPc' = [launchPc EXCEPT ![l] = "createfs"]
  /\ UNCHANGED <<messageQueue, ctlVars, histVars, pollVars, stateVars, stageVars, waitForInteraction, asm, mounted,
                 mainCalls, launchCalls, waitTime>>

\* FS.mount, FS.mkdirTree, then the wait loop is entered with waitTime = 0
LaunchMounted(l) ==
  /\ launchPc[l] = "createfs"
  /\ mounted' = [mounted EXCEPT ![launchMod[l]] = TRUE]
  /\ waitTime' = [waitTime EXCEPT ![l] = 0]
  /\ launchPc' = [launchPc EXCEPT ![l] = "waitasm"]
  /\ UNCHANGED <<messageQueue, ctlVars, histVars, pollVars, stateVars, stageVars, emscripten, waitForInteraction,
                 modules, asm, mainCalls, launchCalls, launchMod>>

\* the loop condition of setupFileSystem's wait
keepWaiting(ready, t) == ~ready /\ t < maxWaitTime

\* one `await delay(10); waitTime += 5`
LaunchWait(l) ==
  /\ launchPc[l] = "waitasm"
  /\ keepWaiting(asm[launchMod[l]], waitTime[l])
  /\ waitTime' = [waitTime EXCEPT ![l] = @ + 5]
  /\ UNCHANGED <<messageQueue, ctlVars, histVars, pollVars, stateVars, stageVars, modVars, launchCalls, launchPc,
                 launchMod>>

\* where setupFileSystem stands when the ROM tasks in `left`, each awaiting
\* its buffer, are the ones still running:
\* at Promise.all of the ROM tasks, at Promise.all of the BIOS tasks, which
\* start when the ROM tasks are all done, or back in setupEmscripten at
\* `await Module.monitorRunDependencies()`
afterRoms(left, a) ==
  IF left # {} THEN [pc |-> "roms", tasks |-> left]
  ELSE IF DOMAIN a.bios # {} THEN [pc |-> "bios", tasks |-> DOMAIN a.bios]
  ELSE [pc |-> "deps", tasks |-> {}]

afterBios(left) ==
  IF left # {} THEN [pc |-> "bios", tasks |-> left] ELSE [pc |-> "deps", tasks |-> {}]

\* the loop is left; options.rom.map starts one task per ROM
LaunchStaged(l) ==
  /\ launchPc[l] = "waitasm"
  /\ ~keepWaiting(asm[launchMod[l]], waitTime[l])
  /\ launchPc' = [launchPc EXCEPT ![l] = afterRoms(DOMAIN assets.rom, assets).pc]
  /\ stage' = [stage EXCEPT ![l] = afterRoms(DOMAIN assets.rom, assets).tasks]
  /\ UNCHANGED <<messageQueue, ctlVars, histVars, pollVars, stateVars, assets, staged, paths, facade, mainArgs,
                 modVars,
                 launchCalls, launchMod, waitTime>>

\* the buffer of ROM i arrives: its task writes content/<fileName>
StageRom(l, i) ==
  /\ launchPc[l] = "roms"
  /\ i \in stage[l]
  /\ staged' = [staged EXCEPT ![launchMod[l]].content = stageAsset(@, assets.rom[i])]
  /\ launchPc' = [launchPc EXCEPT ![l] = afterRoms(stage[l] \ {i}, assets).pc]
  /\ stage' = [stage EXCEPT ![l] = afterRoms(stage[l] \ {i}, assets).tasks]
  /\ UNCHANGED <<messageQueue, ctlVars, histVars, pollVars, stateVars, assets, paths, facade, mainArgs,
                 modVars,
                 launchCalls, launchMod, waitTime>>

\* the buffer of BIOS i arrives: its task writes system/<fileName>
StageBios(l, i) ==
  /\ launchPc[l] = "bios"
  /\ i \in stage[l]
  /\ staged' = [staged EXCEPT ![launchMod[l]].system = stageAsset(@, assets.bios[i])]
  /\ launchPc' = [launchPc EXCEPT ![l] = afterBios(stage[l] \ {i}).pc]
  /\ stage' = [stage EXCEPT ![l] = afterBios(stage[l] \ {i}).tasks]
  /\ UNCHANGED <<messageQueue, ctlVars, histVars, pollVars, stateVars, assets, paths, facade, mainArgs,
                 modVars,
                 launchCalls, launchMod, waitTime>>

\* runMain(): Module.callMain of this.emscripten; the status becomes running
runMainCalls(counts, e) == [counts EXCEPT ![e] = @ + 1]

\* raArgs of runMain: the path of the first ROM under content/, a text in
\* pieces, when options.rom is not empty
raArgs(o) ==
  IF Len(o.rom) > 0
  THEN <<<<"/home/web_user/retroarch/userdata/content/">> \o o.rom[1].fileName>>
  ELSE <<>>

\* setupEmscripten has resolved: writeConfigFile wraps options.retroarch and
\* writes retroarch.cfg, then either the interaction gate is handed to the host
\* or runMain() runs
LaunchConfigured(l) ==
  /\ launchPc[l] = "deps"
  /\ asm[launchMod[l]]
  /\ IF waitForInteraction
     THEN /\ launchPc' = [launchPc EXCEPT ![l] = "gate"]
          /\ UNCHANGED <<mainCalls, mainArgs, gameStatus>>
     ELSE /\ launchPc' = [launchPc EXCEPT ![l] = "idle"]
          /\ mainCalls' = runMainCalls(mainCalls, emscripten)
          /\ mainArgs' = [mainArgs EXCEPT ![emscripten] = raArgs(assets)]
          /\ gameStatus' = "running"
  /\ retroarch' = wrapConfig(retroarch)
  /\ cfgFile' = [cfgFile EXCEPT ![emscripten] = ConfigFile(configContent(retroarch'))]
  /\ UNCHANGED <<messageQueue, processStatus, lastOp, histVars, pollVars, assets, staged, stage,
                 paths, facade, supplied,
                 stateFile, thumbFile, calls, prog, host, emscripten, waitForInteraction,
                 modules, asm, mounted, launchCalls, launchMod, waitTime>>

\* the host calls done(): `this` is the object holding done, which has no
\* runMain, so the call throws and nothing runs
LaunchGateDone(l) ==
  /\ launchPc[l] = "gate"
  /\ launchPc' = [launchPc EXCEPT ![l] = "idle"]
  /\ lastOp' = OpRecord("done", TRUE)
  /\ UNCHANGED <<messageQueue, gameStatus, processStatus, histVars, pollVars, stateVars, stageVars, modVars,
                 launchCalls, launchMod, waitTime>>

\* the wasm of module m finishes instantiating: Module.asm is set
AsmReady(m) ==
  /\ m <= modules
  /\ ~asm[m]
  /\ asm' = [asm EXCEPT ![m] = TRUE]
  /\ UNCHANGED <<messageQueue, ctlVars, histVars, pollVars, stateVars, stageVars, emscripten, waitForInteraction,
                 modules, mounted, mainCalls, launchVars>>

Launch(l) ==
  \/ LaunchCall(l)
  \/ LaunchImported(l)
  \/ LaunchMounted(l)
  \/ LaunchWait(l)
  \/ LaunchStaged(l)
  \/ \E i \in 1..MaxRoms : StageRom(l, i)
  \/ \E i \in 1..MaxBios : StageBios(l, i)
  \/ LaunchConfigured(l)
  \/ LaunchGateDone(l)

Init ==
  /\ InitEmulator
  /\ InitNoPoller
  /\ InitDefaultConfig
  /\ InitDefaultAssets
  /\ waitForInteraction \in BOOLEAN

\* the controller with one launch() at a time
Next ==
  \/ Launch(1)
  \/ \E m \in Modules : AsmReady(m)
  \/ Resume
  \/ Restart
  \/ Pause
  \/ \E msg \in {"MUTE"} : SendCommandOp(msg)
  \/ Resize
  \/ Exit
  \/ ProgramRead

Spec == Init /\ [][Next]_vars

\* overlapping launch() calls
NextLaunch ==
  \/ \E l \in LaunchCalls : Launch(l)
  \/ \E m \in Modules : AsmReady(m)

SpecLaunch == Init /\ [][NextLaunch]_vars

\* launch() of a host that supplies any lists of ROM and BIOS files
InitStaging ==
  /\ InitEmulator
  /\ InitNoPoller
  /\ InitDefaultConfig
  /\ assets \in [rom : AssetLists(MaxRoms), bios : AssetLists(MaxBios), core : {"fceumm"}]
  /\ waitForInteraction \in BOOLEAN

NextStaging ==
  \/ Launch(1)
  \/ \E m \in Modules : AsmReady(m)

SpecStaging == InitStaging /\ [][NextStaging]_vars

\* launch() of a host that supplies any of the configuration mappings
InitConfig ==
  /\ InitEmulator
  /\ InitNoPoller
  /\ InitDefaultAssets
  /\ supplied \in SuppliedConfigs
  /\ retroarch = supplied
  /\ waitForInteraction \in BOOLEAN

SpecConfig == InitConfig /\ [][NextStaging]_vars

----------------------------------------------------------------------------
(* The paths of the state file and of its thumbnail *)

\* s.lastIndexOf(c): the last index, counted from 0, at which c stands, or -1
lastIndexOf(s, c) ==
  LET hits == {i \in 1..Len(s) : s[i] = c}
  IN  IF hits = {} THEN -1 ELSE (CHOOSE i \in hits : \A j \in hits : j <= i) - 1

\* s.slice(0, end): an end below 0 counts from the end of s
slice(s, end) ==
  LET to == IF end < 0 THEN Len(s) + end ELSE end
  IN  SubSeq(s, 1, IF to < 0 THEN 0 ELSE IF to > Len(s) THEN Len(s) ELSE to)

\* coreFullNameMap[name]
coreFullNameMap(name) ==
  CASE name = "fceumm" -> "FCEUmm"
    [] name = "mgba" -> "mGBA"

\* file names of a first ROM: with one dot, with none, with several
RomNames == {Pong1k, RomBin, <<"r", "o", "m">>, <<"a", ".", "b", ".", "c">>}

\* the getter stateFileName, a text in pieces
stateFileName(o) ==
  LET fileName == o.rom[1].fileName
      baseName == slice(fileName, lastIndexOf(fileName, "."))
      coreFullName == coreFullNameMap(o.core)
  IN  <<"/home/web_user/retroarch/userdata/", "states/", coreFullName, "/">>
        \o baseName \o <<".state">>

\* the getter stateThumbnailFileName
stateThumbnailFileName(o) == stateFileName(o) \o <<".png">>

\* operation op evaluates the getters: clearStateFile to unlink both files,
\* saveState to wait for them, loadState to write the state file and wait
TargetPaths(op) ==
  /\ paths' = [paths EXCEPT ![op] =
                 [state |-> stateFileName(assets),
                  thumbnail |-> IF op = "loadState" THEN <<>>
                                ELSE stateThumbnailFileName(assets)]]
  /\ UNCHANGED <<messageQueue, histVars, ctlVars, modVars, launchVars, pollVars, stateVars,
                 assets, staged, stage, facade, mainArgs>>

\* an emulator of any core whose first ROM has any of the names
InitPaths ==
  /\ InitEmulator
  /\ InitNoPoller
  /\ InitDefaultConfig
  /\ waitForInteraction = FALSE
  /\ assets \in [rom : {<<Asset(name, blob)>> : name \in RomNames, blob \in Blobs},
                 bios : {<<>>}, core : {"fceumm", "mgba"}]

SpecPaths == InitPaths /\ [][\E op \in DOMAIN NoPaths : TargetPaths(op)]_vars

----------------------------------------------------------------------------
(* The facade: Nostalgist.launch() and the signal of its options *)

\* the files loadEmulatorOptions resolves
Resolutions == {"core", "rom", "bios", "shader"}

\* everything but the facade and the launch of the emulator
besideFacade == <<messageQueue, histVars, ctlVars, modVars, launchVars, pollVars, stateVars,
                  assets, staged, stage, paths, mainArgs>>

\* a check that never throws
checkIsAbortedNever(aborted) == FALSE

\* checkIsAborted(): it throws 'Launch aborted' when the signal is aborted
checkIsAborted(aborted) == aborted

\* launch(): loadEmulatorOptions starts the four resolutions; each awaits
\* either this.fetch(url), which is handed the signal, or something the
\* signal does not reach (a resolve function of the host, a Blob)
FacadeLaunch ==
  /\ facade.pc = "new"
  /\ \E kinds \in [Resolutions -> {"fetch", "other"}] :
       facade' = [facade EXCEPT !.pc = "resolving",
                                !.pending = {<<r, kinds[r]>> : r \in Resolutions}]
  /\ UNCHANGED besideFacade

\* the host aborts the signal; abortedAt keeps where launch() stood, "started"
\* once the entry point has been called
FacadeAbort ==
  /\ ~facade.aborted
  /\ facade.pc # "rejected"
  /\ facade' = [facade EXCEPT
                  !.aborted = TRUE,
                  !.abortedAt = IF \E m \in Modules : mainCalls[m] > 0 THEN "started"
                                ELSE facade.pc]
  /\ UNCHANGED besideFacade

\* a fetch in flight rejects with the abort error of the signal: Promise.all
\* rejects and so does launch()
FacadeFetchAborted ==
  /\ facade.pc = "resolving"
  /\ facade.aborted
  /\ \E r \in facade.pending : r[2] = "fetch"
  /\ facade' = [facade EXCEPT !.pc = "rejected", !.error = "AbortError"]
  /\ UNCHANGED besideFacade

\* a resolve function returns nothing: resolveStringFile throws
FacadeFailed(r) ==
  /\ facade.pc = "resolving"
  /\ r \in facade.pending
  /\ r[2] = "other"
  /\ facade' = [facade EXCEPT !.pc = "rejected", !.error = "file is invalid"]
  /\ UNCHANGED besideFacade

\* a resolution completes; after the last one Promise.all resolves and
\* loadEmulatorOptions calls checkIsAborted() before it keeps the options
FacadeResolved(r) ==
  /\ facade.pc = "resolving"
  /\ r \in facade.pending
  /\ r[2] = "fetch" => ~facade.aborted
  /\ facade' = IF facade.pending # {r} THEN [facade EXCEPT !.pending = @ \ {r}]
               ELSE IF checkIsAborted(facade.aborted)
               THEN [facade EXCEPT !.pending = {}, !.pc = "rejected", !.error = "Launch aborted"]
               ELSE [facade EXCEPT !.pending = {}, !.pc = "options"]
  /\ UNCHANGED besideFacade

\* back in launch(): checkIsAborted(), loadEmulator(), and launchEmulator()
\* calls launch() of the new Emulator
FacadeLoadEmulator ==
  /\ facade.pc = "options"
  /\ IF checkIsAborted(facade.aborted)
     THEN /\ facade' = [facade EXCEPT !.pc = "rejected", !.error = "Launch aborted"]
          /\ UNCHANGED besideFacade
     ELSE /\ facade' = [facade EXCEPT !.pc = "launching"]
          /\ emulatorLaunch(1)

\* Nostalgist.launch() of a host that leaves runEmulatorManually unset, and
\* the launch of the emulator it creates
NextFacade ==
  \/ FacadeLaunch
  \/ FacadeAbort
  \/ FacadeFetchAborted
  \/ \E r \in Resolutions \X {"fetch", "other"} : FacadeFailed(r)
  \/ \E r \in Resolutions \X {"fetch", "other"} : FacadeResolved(r)
  \/ FacadeLoadEmulator
  \/ LaunchImported(1)
  \/ LaunchMounted(1)
  \/ LaunchWait(1)
  \/ LaunchStaged(1)
  \/ \E i \in 1..MaxRoms : StageRom(1, i)
  \/ \E i \in 1..MaxBios : StageBios(1, i)
  \/ LaunchConfigured(1)
  \/ LaunchGateDone(1)
  \/ \E m \in Modules : AsmReady(m)

SpecFacade == Init /\ [][NextFacade]_vars

----------------------------------------------------------------------------
(* File-ready poller: waitForEmscriptenFile *)

maxRetries == 30

\* base * 2^k, not doubled any further once it has reached the cap
RECURSIVE Doubled(_, _, _)
Doubled(base, k, cap) ==
  IF k = 0 \/ base >= cap THEN base ELSE Doubled(2 * base, k - 1, cap)

\* a delay that doubles to the first power past the ceiling and stays there
delayTimeNoCeiling(retryTimes) == Doubled(100, retryTimes, 1000)

\* delayTime = Math.min(100 * 2 ** retryTimes, 1000)
delayTime(retryTimes) ==
  LET d == Doubled(100, retryTimes, 1000) IN IF d < 1000 THEN d ELSE 1000

\* the locals of waitForEmscriptenFile when its loop is first entered:
\* buffer undefined, isFinished false, retryTimes 0, and the first delayTime
\* computed, at `await delay(delayTime)`
NewPoller ==
  [retryTimes |-> 0, buffer |-> [set |-> FALSE, data |-> <<>>],
   isFinished |-> FALSE, delay |-> delayTime(0), pc |-> "delay"]

\* a comparison of lengths that takes two empty reads for a finished write
sameLengthOrEmpty(buffer, newData) ==
  buffer.set /\ Len(buffer.data) = Len(newData)

\* isFinished after a read that found newBuffer:
\* buffer?.byteLength > 0 && buffer?.byteLength === newBuffer.byteLength
sameLength(buffer, newData) ==
  buffer.set /\ Len(buffer.data) > 0 /\ Len(buffer.data) = Len(newData)

\* the loop goes on: retryTimes <= maxRetries && !isFinished
loopGoesOn(retryTimes, isFinished) == retryTimes <= maxRetries /\ ~isFinished

\* one turn of the loop after its delay: FS.readFile throws when there is no
\* file, and then only retryTimes changes; the loop condition is tested again
\* and the call returns buffer or throws 'fs timeout'
pollAttempt(p, f) ==
  LET fin == IF f.exists THEN sameLength(p.buffer, f.data) ELSE p.isFinished
      buf == IF f.exists THEN [set |-> TRUE, data |-> f.data] ELSE p.buffer
      n   == p.retryTimes + 1
  IN  [retryTimes |-> n, buffer |-> buf, isFinished |-> fin,
       delay |-> IF loopGoesOn(n, fin) THEN delayTime(n) ELSE p.delay,
       pc |-> IF loopGoesOn(n, fin) THEN "delay"
              ELSE IF fin THEN "returned" ELSE "thrown"]

\* the poller's delay ends and it reads the watched path
PollAttempt ==
  /\ poll.pc = "delay"
  /\ poll' = pollAttempt(poll, pfile)
  /\ attempts' = attempts + 1
  /\ lastRead' = pfile
  /\ lastGood' = IF pfile.exists THEN pfile ELSE lastGood
  /\ UNCHANGED <<pfile, messageQueue, histVars, ctlVars, modVars, launchVars, stateVars, stageVars>>

\* while the poller waits, the watched file is written (created, replaced,
\* grown or shrunk) by the program or by a controller call
FileWritten(c) ==
  /\ poll.pc = "delay"
  /\ pfile # FileOf(c)
  /\ pfile' = FileOf(c)
  /\ UNCHANGED <<poll, attempts, lastRead, lastGood, messageQueue, histVars, ctlVars,
                 modVars, launchVars, stateVars, stageVars>>

\* while the poller waits, the watched file is unlinked (clearStateFile)
FileUnlinked ==
  /\ poll.pc = "delay"
  /\ pfile.exists
  /\ pfile' = NoFile
  /\ UNCHANGED <<poll, attempts, lastRead, lastGood, messageQueue, histVars, ctlVars,
                 modVars, launchVars, stateVars, stageVars>>

\* waitForEmscriptenFile is called on a path that holds any file or none
InitPoller ==
  /\ InitEmulator
  /\ InitDefaultConfig
  /\ InitDefaultAssets
  /\ waitForInteraction = FALSE
  /\ pfile \in Files
  /\ poll = NewPoller
  /\ attempts = 0
  /\ lastRead = NoFile
  /\ lastGood = NoFile

NextPoller ==
  \/ PollAttempt
  \/ \E c \in Contents : FileWritten(c)
  \/ FileUnlinked

SpecPoller == InitPoller /\ [][NextPoller]_vars

----------------------------------------------------------------------------
(* Save states: saveState(), loadState() and the embedded program *)

\* FS.readFile, FS.unlink and FS.writeFile reach a path under /home only while
\* /home is mounted
Visible(file, mnt) == IF mnt THEN file ELSE NoFile

\* clearStateFile(): both FS.unlink calls stand in one try block, so the
\* second is reached only when the first did not throw
clearStateFile(sf, tf) ==
  IF sf.exists THEN [state |-> NoFile, thumbnail |-> NoFile]
  ELSE [state |-> sf, thumbnail |-> tf]

\* clearStateFile() on the filesystem of module m
Cleared(m) ==
  IF mounted[m] THEN clearStateFile(stateFile[m], thumbFile[m])
  ELSE [state |-> stateFile[m], thumbnail |-> thumbFile[m]]

Rejected(call, error) ==
  [NoCall EXCEPT !.op = call.op, !.result.kind = "rejected", !.result.error = error]

\* saveState() is called: clearStateFile(), sendCommand('SAVE_STATE'), then
\* one waitForEmscriptenFile or two are started, up to their first delay
SaveCall(k) ==
  /\ calls[k].pc = "idle"
  /\ Len(messageQueue) < MaxQueue
  /\ IF emscripten = 0
     THEN /\ calls' = [calls EXCEPT ![k] = Rejected([op |-> "save"], "TypeError")]
          /\ UNCHANGED <<messageQueue, stateFile, thumbFile>>
     ELSE LET both == Truthy(Lookup(retroarch, ThumbnailKey))
          IN  /\ stateFile' = [stateFile EXCEPT ![emscripten] = Cleared(emscripten).state]
              /\ thumbFile' = [thumbFile EXCEPT ![emscripten] = Cleared(emscripten).thumbnail]
              /\ messageQueue' = sendCommand(messageQueue, "SAVE_STATE")
              /\ calls' = [calls EXCEPT ![k] =
                             [NoCall EXCEPT !.op = "save", !.pc = "polling",
                                            !.fs = emscripten,
                                            !.waitsThumbnail = both,
                                            !.p1 = NewPoller,
                                            !.p2 = IF both THEN NewPoller ELSE NoPoller]]
  /\ UNCHANGED <<histVars, ctlVars, modVars, launchVars, pollVars, stageVars, supplied, retroarch,
                 cfgFile, prog>>

\* both pollers wait the same delays, so their reads alternate: the state
\* file's read comes first in every round
turnOf(call, which) ==
  IF which = "state"
  THEN call.p1.pc = "delay"
       /\ (call.p2.pc = "delay" => call.p1.retryTimes <= call.p2.retryTimes)
  ELSE call.p2.pc = "delay"
       /\ (call.p1.pc = "delay" => call.p2.retryTimes < call.p1.retryTimes)

\* the awaited pollers have all returned
allReturned(call) ==
  call.p1.pc = "returned" /\ (call.waitsThumbnail => call.p2.pc = "returned")

\* a saveState() that takes no poller for thrown
noneThrown(call) == FALSE

\* one of the awaited pollers has thrown 'fs timeout'
oneThrown(call) == call.p1.pc = "thrown" \/ call.p2.pc = "thrown"

\* what saveState() returns: {state, thumbnail}
saveResult(call) ==
  [kind |-> "resolved", error |-> "", state |-> call.p1.buffer.data,
   thumbnail |-> IF call.waitsThumbnail THEN call.p2.buffer
                 ELSE [set |-> FALSE, data |-> <<>>]]

\* a poller of a saveState() call reads its path in the FS it took when it
\* started; when the awaited pollers have all returned, clearStateFile() runs
\* again and the call resolves; when one has thrown, the call rejects
SavePoll(k, which) ==
  LET m == emscripten
      fs == calls[k].fs
      f == IF which = "state" THEN Visible(stateFile[fs], mounted[fs])
           ELSE Visible(thumbFile[fs], mounted[fs])
      polled == IF which = "state"
                THEN [calls[k] EXCEPT !.p1 = pollAttempt(calls[k].p1, f)]
                ELSE [calls[k] EXCEPT !.p2 = pollAttempt(calls[k].p2, f)]
  IN  /\ calls[k].op = "save"
      /\ calls[k].pc = "polling"
      /\ turnOf(calls[k], which)
      /\ IF oneThrown(polled)
         THEN /\ calls' = [calls EXCEPT ![k] = Rejected(polled, "fs timeout")]
              /\ UNCHANGED <<stateFile, thumbFile>>
         ELSE IF allReturned(polled)
         THEN /\ calls' = [calls EXCEPT ![k] =
                             [NoCall EXCEPT !.op = "save",
                                            !.waitsThumbnail = polled.waitsThumbnail,
                                            !.result = saveResult(polled)]]
              /\ stateFile' = [stateFile EXCEPT ![m] = Cleared(m).state]
              /\ thumbFile' = [thumbFile EXCEPT ![m] = Cleared(m).thumbnail]
         ELSE /\ calls' = [calls EXCEPT ![k] = polled]
              /\ UNCHANGED <<stateFile, thumbFile>>
      /\ UNCHANGED <<messageQueue, histVars, ctlVars, modVars, launchVars, pollVars,
                     stageVars, supplied, retroarch, cfgFile, prog>>

\* the await of waitForEmscriptenFile in loadState() is passed: the call
\* goes on to sendCommand('LOAD_STATE') for a poller in this state
loadContinuesAnyway(p) == p.pc # "delay"

loadContinues(p) == p.pc = "returned"

\* loadState(blob) is called: clearStateFile(), then `await blobToBuffer(blob)`
LoadCall(k, bytes) ==
  /\ calls[k].pc = "idle"
  /\ Len(messageQueue) < MaxQueue
  /\ IF emscripten = 0
     THEN /\ calls' = [calls EXCEPT ![k] = Rejected([op |-> "load"], "TypeError")]
          /\ UNCHANGED <<stateFile, thumbFile>>
     ELSE /\ stateFile' = [stateFile EXCEPT ![emscripten] = Cleared(emscripten).state]
          /\ thumbFile' = [thumbFile EXCEPT ![emscripten] = Cleared(emscripten).thumbnail]
          /\ calls' = [calls EXCEPT ![k] =
                         [NoCall EXCEPT !.op = "load", !.pc = "convert",
                                        !.fs = emscripten, !.bytes = bytes]]
  /\ UNCHANGED <<messageQueue, histVars, ctlVars, modVars, launchVars, pollVars,
                 stageVars, supplied, retroarch, cfgFile, prog>>

\* the buffer is there: FS.writeFile(stateFileName, buffer) in the FS taken at
\* the call, then waitForEmscriptenFile starts, up to its first delay
LoadWrite(k) ==
  LET fs == calls[k].fs
  IN  /\ calls[k].op = "load"
      /\ calls[k].pc = "convert"
      /\ IF mounted[fs]
         THEN /\ stateFile' = [stateFile EXCEPT ![fs] = FileOf(calls[k].bytes)]
              /\ calls' = [calls EXCEPT ![k].pc = "polling", ![k].wrote = TRUE,
                                        ![k].fs = emscripten, ![k].p1 = NewPoller]
         ELSE /\ calls' = [calls EXCEPT ![k] = Rejected(calls[k], "ErrnoError")]
              /\ UNCHANGED stateFile
      /\ UNCHANGED <<messageQueue, histVars, ctlVars, modVars, launchVars, pollVars,
                     stageVars, supplied, retroarch, cfgFile, thumbFile, prog>>

\* the poller of a loadState() call reads the state path; when it returns,
\* sendCommand('LOAD_STATE') runs and the call resolves; when it throws, the
\* call rejects
LoadPoll(k) ==
  LET fs == calls[k].fs
      polled == [calls[k] EXCEPT
                   !.p1 = pollAttempt(calls[k].p1, Visible(stateFile[fs], mounted[fs]))]
  IN  /\ calls[k].op = "load"
      /\ calls[k].pc = "polling"
      /\ calls[k].p1.pc = "delay"
      /\ IF loadContinues(polled.p1)
         THEN /\ messageQueue' = sendCommand(messageQueue, "LOAD_STATE")
              /\ calls' = [calls EXCEPT ![k] =
                             [NoCall EXCEPT !.op = "load", !.wrote = polled.wrote,
                                            !.result.kind = "resolved"]]
         ELSE IF polled.p1.pc = "thrown"
         THEN /\ calls' = [calls EXCEPT ![k] = Rejected(polled, "fs timeout")]
              /\ UNCHANGED messageQueue
         ELSE /\ calls' = [calls EXCEPT ![k] = polled]
              /\ UNCHANGED messageQueue
      /\ UNCHANGED <<histVars, ctlVars, modVars, launchVars, pollVars, stageVars, supplied,
                     retroarch, fsVars, prog>>

\* the commands waiting in the queue, none of them partly read
queued(q) == [i \in DOMAIN q |-> q[i][1]]

\* the states the program passes through: its whole state at the time,
\* never empty; one is written at once, one in two parts
Images == {<<0>>, <<1, 0>>}

\* the blobs a host hands to loadState(): an empty one, and two states
Payloads == {<<>>, <<0>>, <<1, 0>>}

\* the thumbnail the program writes beside a state
ThumbnailImage == <<1>>

\* the program takes one command: for SAVE_STATE it has its checkpoint to
\* write, and a thumbnail when its configuration file says so; for LOAD_STATE
\* its checkpoint becomes what the state file f holds, when there is one
takeCommand(p, bytes, f, thumbnails) ==
  IF bytes = Encode("SAVE_STATE")
  THEN [p EXCEPT !.todo = {"state"} \cup (IF thumbnails THEN {"thumbnail"} ELSE {}),
                 !.image = p.checkpoint, !.written = 0]
  ELSE IF bytes = Encode("LOAD_STATE") /\ f.exists /\ f.data # <<>>
  THEN [p EXCEPT !.checkpoint = f.data]
  ELSE p

\* the program takes the commands cmds in their order
RECURSIVE takeCommands(_, _, _, _)
takeCommands(p, cmds, f, thumbnails) ==
  IF cmds = <<>> THEN p
  ELSE takeCommands(takeCommand(p, Head(cmds), f, thumbnails), Tail(cmds), f, thumbnails)

\* the program of module m reads its standard input to the end and takes the
\* commands it finds
ProgramCommands(m) ==
  /\ mainCalls[m] > 0
  /\ messageQueue # <<>>
  /\ messageQueue' = Drain(messageQueue)
  /\ lastByte' = stdinResult(messageQueue')
  /\ prog' = takeCommands(prog, queued(messageQueue),
                          Visible(stateFile[m], mounted[m]), thumbnailsOn(cfgFile[m]))
  /\ UNCHANGED <<sent, delivered, ctlVars, modVars, launchVars, pollVars, stageVars, supplied,
                 retroarch, fsVars, calls>>

\* the program runs on: its state becomes another one
ProgramProgress(m) ==
  /\ mainCalls[m] > 0
  /\ \E c \in Images \ {prog.checkpoint} : prog' = [prog EXCEPT !.checkpoint = c]
  /\ UNCHANGED <<messageQueue, histVars, ctlVars, modVars, launchVars, pollVars,
                 stageVars, supplied, retroarch, fsVars, calls>>

\* the program writes the next byte of the state it is saving: the first one
\* creates the file anew; a later one is appended to the file the program
\* created, and is lost when the path no longer holds that file
ProgramWritesState(m) ==
  LET sofar == SubSeq(prog.image, 1, prog.written)
      next == SubSeq(prog.image, 1, prog.written + 1)
      there == prog.written = 0 \/ stateFile[m] = FileOf(sofar)
  IN  /\ mainCalls[m] > 0
      /\ mounted[m]
      /\ "state" \in prog.todo
      /\ stateFile' = IF there THEN [stateFile EXCEPT ![m] = FileOf(next)] ELSE stateFile
      /\ prog' = IF next = prog.image \/ ~there
                 THEN [prog EXCEPT !.todo = @ \ {"state"}, !.image = <<>>, !.written = 0]
                 ELSE [prog EXCEPT !.written = @ + 1]
      /\ UNCHANGED <<messageQueue, histVars, ctlVars, modVars, launchVars, pollVars,
                     stageVars, supplied, retroarch, cfgFile, thumbFile, calls>>

\* the program writes the thumbnail
ProgramWritesThumbnail(m) ==
  /\ mainCalls[m] > 0
  /\ mounted[m]
  /\ "thumbnail" \in prog.todo
  /\ thumbFile' = [thumbFile EXCEPT ![m] = FileOf(ThumbnailImage)]
  /\ prog' = [prog EXCEPT !.todo = @ \ {"thumbnail"}]
  /\ UNCHANGED <<messageQueue, histVars, ctlVars, modVars, launchVars, pollVars,
                 stageVars, supplied, retroarch, cfgFile, stateFile, calls>>

\* launch() has returned for the configuration c: module 1 is mounted and
\* instantiated, its main has been called, options.retroarch is wrapped and
\* retroarch.cfg is written
Launched(c) ==
  /\ supplied = c
  /\ retroarch = wrapConfig(c)
  /\ cfgFile = [m \in Modules |->
                  IF m = 1 THEN ConfigFile(configContent(wrapConfig(c))) ELSE NoConfigFile]
  /\ emscripten = 1
  /\ modules = 1
  /\ asm = [m \in Modules |-> m = 1]
  /\ mounted = [m \in Modules |-> m = 1]
  /\ mainCalls = [m \in Modules |-> IF m = 1 THEN 1 ELSE 0]
  /\ gameStatus = "running"
  /\ launchCalls = 1
  /\ launchPc = [l \in LaunchCalls |-> "idle"]
  /\ launchMod = [l \in LaunchCalls |-> IF l = 1 THEN 1 ELSE 0]

\* a launched session of a host that has supplied one of the configurations
LaunchedSession ==
  /\ \E c \in Configs : Launched(c)
  /\ InitNoPoller
  /\ waitForInteraction = FALSE
  /\ messageQueue = <<>>
  /\ processStatus = "unset"
  /\ waitTime = [l \in LaunchCalls |-> 0]
  /\ sent = <<>>
  /\ delivered = <<>>
  /\ lastByte = Null
  /\ lastOp = OpRecord("launch", FALSE)
  /\ stateFile = [m \in Modules |-> NoFile]
  /\ thumbFile = [m \in Modules |-> NoFile]
  /\ calls = [k \in CallSlots |-> NoCall]
  /\ prog \in {Program(c) : c \in Images}
  /\ InitDefaultAssets
  /\ staged = [m \in Modules |-> IF m = 1 THEN stagedAll(assets) ELSE NoDirectories]
  /\ stage = [l \in LaunchCalls |-> {}]
  /\ paths = NoPaths
  /\ facade = NoFacade
  /\ mainArgs = [m \in Modules |-> IF m = 1 THEN raArgs(assets) ELSE <<>>]

InitLaunched ==
  /\ LaunchedSession
  /\ host = NoScript

\* one saveState() or loadState() at a time, and the program
NextState ==
  \/ SaveCall(1) /\ UNCHANGED host
  \/ (\E which \in {"state", "thumbnail"} : SavePoll(1, which)) /\ UNCHANGED host
  \/ (\E bytes \in Payloads : LoadCall(1, bytes)) /\ UNCHANGED host
  \/ LoadWrite(1) /\ UNCHANGED host
  \/ LoadPoll(1) /\ UNCHANGED host
  \/ (\E m \in Modules : ProgramCommands(m)) /\ UNCHANGED host
  \/ (\E m \in Modules : ProgramProgress(m)) /\ UNCHANGED host
  \/ (\E m \in Modules : ProgramWritesState(m)) /\ UNCHANGED host
  \/ (\E m \in Modules : ProgramWritesThumbnail(m)) /\ UNCHANGED host

SpecState == InitLaunched /\ [][NextState]_vars

\* the script of a host that saves, loads what it got, and saves again
Script(position, held) == [pc |-> position, state |-> held]

\* where the script stands once the call in slot k has taken a step: as
\* before while the call is pending, at `resolved` or at "failed" after it
HostAfter(k, resolved) ==
  IF calls'[k].pc # "idle" THEN host
  ELSE IF calls'[k].result.kind = "resolved" THEN resolved
  ELSE Script("failed", host.state)

\* first saveState()
TripSave ==
  /\ host.pc = "start"
  /\ SaveCall(1)
  /\ host' = Script("saving", <<>>)

\* the first saveState() goes on; the host keeps the state it returns
TripSavePoll ==
  /\ host.pc = "saving"
  /\ \E which \in {"state", "thumbnail"} : SavePoll(1, which)
  /\ host' = HostAfter(1, Script("saved", calls'[1].result.state))

\* loadState(state) of the state the host holds
TripLoad ==
  /\ host.pc = "saved"
  /\ calls[1].op = "save"
  /\ LoadCall(1, host.state)
  /\ UNCHANGED host

\* loadState() goes on to its end
TripLoadStep ==
  /\ host.pc = "saved"
  /\ calls[1].op = "load"
  /\ LoadWrite(1) \/ LoadPoll(1)
  /\ host' = HostAfter(1, Script("sent", host.state))

\* the program reads its input; after loadState() has resolved, this takes
\* the LOAD_STATE it sent
TripProgramCommands ==
  /\ \E m \in Modules : ProgramCommands(m)
  /\ host' = IF host.pc = "sent" THEN Script("restored", host.state) ELSE host

\* the second saveState(), after the program has taken LOAD_STATE
TripSaveAgain ==
  /\ host.pc = "restored"
  /\ SaveCall(1)
  /\ host' = Script("resaving", host.state)

\* the second saveState() goes on
TripSaveAgainPoll ==
  /\ host.pc = "resaving"
  /\ \E which \in {"state", "thumbnail"} : SavePoll(1, which)
  /\ host' = HostAfter(1, Script("done", host.state))

\* the program runs on, but not between taking LOAD_STATE and the end of
\* the second saveState()
TripProgramProgress ==
  /\ host.pc \notin {"restored", "resaving"}
  /\ \E m \in Modules : ProgramProgress(m)
  /\ UNCHANGED host

TripProgramWrites ==
  /\ \E m \in Modules : ProgramWritesState(m) \/ ProgramWritesThumbnail(m)
  /\ UNCHANGED host

InitRoundTrip ==
  /\ LaunchedSession
  /\ host = Script("start", <<>>)

NextRoundTrip ==
  \/ TripSave
  \/ TripSavePoll
  \/ TripLoad
  \/ TripLoadStep
  \/ TripProgramCommands
  \/ TripSaveAgain
  \/ TripSaveAgainPoll
  \/ TripProgramProgress
  \/ TripProgramWrites

SpecRoundTrip == InitRoundTrip /\ [][NextRoundTrip]_vars

\* a host that calls saveState() twice in one turn, as in
\* Promise.all([saveState(), saveState()]): the second call starts before any
\* timer of the first has fired
OverlapFirst ==
  /\ \A k \in CallSlots : calls[k].pc = "idle"
  /\ SaveCall(1)
  /\ UNCHANGED host

OverlapSecond ==
  /\ calls[1].op = "save"
  /\ calls[1].pc = "polling"
  /\ calls[1].p1.retryTimes = 0
  /\ calls[2].pc = "idle"
  /\ calls[2].op = "none"
  /\ SaveCall(2)
  /\ UNCHANGED host

\* the pollers of both calls wait the same delays from the same turn, so
\* their timers fire in the order they were set: in every round the reads of
\* the first call come before those of the second
overlapTurn(mine, k, other) ==
  \A p \in {other.p1, other.p2} :
    p.pc = "delay" =>
      IF k = 1 THEN mine.retryTimes <= p.retryTimes ELSE mine.retryTimes < p.retryTimes

OverlapPoll(k) ==
  /\ \E which \in {"state", "thumbnail"} :
       /\ overlapTurn(IF which = "state" THEN calls[k].p1 ELSE calls[k].p2,
                      k, calls[3 - k])
       /\ SavePoll(k, which)
  /\ UNCHANGED host

OverlapProgram ==
  /\ \E m \in Modules :
       ProgramCommands(m) \/ ProgramWritesState(m) \/ ProgramWritesThumbnail(m)
  /\ UNCHANGED host

NextOverlap ==
  \/ OverlapFirst
  \/ OverlapSecond
  \/ \E k \in CallSlots : OverlapPoll(k)
  \/ OverlapProgram

SpecOverlap == InitLaunched /\ [][NextOverlap]_vars

----------------------------------------------------------------------------
(* Properties of the command channel *)

\* the concatenation of command name + newline of a sequence of commands
RECURSIVE Concat(_)
Concat(cmds) == IF cmds = <<>> THEN <<>> ELSE Encode(Head(cmds)) \o Concat(Tail(cmds))

IsPrefix(s, t) == Len(s) <= Len(t) /\ SubSeq(t, 1, Len(s)) = s

\* C1: whatever the interleaving of sendCommand and stdin calls, the non-null
\* bytes stdin has returned are a prefix of the concatenation of the commands
\* (name + newline) in the order they were sent.
C1_FifoPrefix == IsPrefix(delivered, Concat(sent))

\* C1 witness: two different commands were sent and delivery has gone past the
\* end of the first into the second.
C1_Witness ==
  /\ Len(sent) >= 2
  /\ sent[1] # sent[2]
  /\ Len(delivered) > Len(Encode(sent[1]))
  /\ lastByte # Null

\* the bytes still unread in the queue, in order
RECURSIVE Unread(_)
Unread(q) ==
  IF q = <<>> THEN <<>>
  ELSE SubSeq(q[1][1], q[1][2] + 1, Len(q[1][1])) \o Unread(Tail(q))

\* C1 (second part): no byte is skipped or delivered twice: the bytes delivered
\* followed by the bytes still queued are exactly the bytes of the commands sent.
C1_Fifo ==
  /\ C1_FifoPrefix
  /\ delivered \o Unread(messageQueue) = Concat(sent)

----------------------------------------------------------------------------
(* Properties of the lifecycle controller *)

PauseToggle == <<Encode("PAUSE_TOGGLE")>>

\* C2: pause() pushes exactly one PAUSE_TOGGLE when the status is running and
\* nothing otherwise, resume() exactly one when the status is paused and nothing
\* otherwise; a toggle is pushed only by a call that changes the status; pause()
\* leaves the status paused, so a second pause() right after it pushes nothing.
C2_ToggleOnlyOnChange ==
  [][ /\ Pause => /\ Appended(messageQueue, messageQueue') =
                       IF gameStatus = "running" THEN PauseToggle ELSE <<>>
                  /\ gameStatus' = "paused"
      /\ Resume => /\ Appended(messageQueue, messageQueue') =
                        IF gameStatus = "paused" THEN PauseToggle ELSE <<>>
                   /\ gameStatus' = "running"
      /\ (Pause \/ Resume) /\ Len(messageQueue') > Len(messageQueue)
           => gameStatus' # gameStatus
    ]_vars

\* C2 witness: pause() has run on a running session and its toggle is the last
\* entry of the queue.
C2_Witness ==
  /\ lastOp.op = "pause"
  /\ gameStatus = "paused"
  /\ messageQueue # <<>>
  /\ messageQueue[Len(messageQueue)] = <<Encode("PAUSE_TOGGLE"), 0>>

ControllerOps == {"pause", "resume", "restart", "sendCommand", "resize", "launch"}

\* C3: once exit() has been called, every controller operation raises an error.
C3_FailAfterExit ==
  (processStatus = "terminated" /\ lastOp.op \in ControllerOps) => lastOp.threw

NoMainCalled == \A m \in Modules : mainCalls[m] = 0

\* C4: a controller operation invoked before launch has completed (before the
\* entry point has been invoked) raises an error.
C4_FailBeforeLaunch ==
  (NoMainCalled /\ lastOp.op \in (ControllerOps \ {"launch"})) => lastOp.threw

RECURSIVE SumUpTo(_, _)
SumUpTo(f, n) == IF n = 0 THEN 0 ELSE f[n] + SumUpTo(f, n - 1)

\* C5: whatever launch() calls are made on one controller, at most one module is
\* instantiated and the entry point is invoked at most once.
C5_AtMostOneModule ==
  /\ modules <= 1
  /\ SumUpTo(mainCalls, MaxLaunches) <= 1

----------------------------------------------------------------------------
(* Properties of the file-ready poller *)

\* C6: when the file never stabilizes, the poller with retry ceiling maxRetries
\* makes exactly maxRetries read attempts and then fails with 'fs timeout'.
C6_ExactlyMaxRetriesAttempts == poll.pc = "thrown" => attempts = maxRetries

\* the step in which the poller declares the file ready
DeclaresReady == ~poll.isFinished /\ poll'.isFinished

\* C7: the poller declares the file ready only when the read it has just made
\* and the read attempt right before it (no attempt between them, failed or
\* not) both found the file, with the same non-zero length.
C7_TwoConsecutivePolls ==
  [][ DeclaresReady =>
        /\ attempts >= 1
        /\ lastRead.exists
        /\ pfile.exists
        /\ Len(pfile.data) > 0
        /\ Len(lastRead.data) = Len(pfile.data)
    ]_vars

\* C7 as amended: the poller declares the file ready only when the read it has
\* just made found the same non-zero length as the latest earlier read that did
\* not throw (reads that threw may lie between the two), and never on its first
\* read.
C7_TwoSuccessfulReads ==
  [][ DeclaresReady =>
        /\ attempts >= 1
        /\ lastGood.exists
        /\ pfile.exists
        /\ Len(pfile.data) > 0
        /\ Len(lastGood.data) = Len(pfile.data)
    ]_vars

\* C7 witness: the poller has returned after a failed read and at least two
\* reads that found a non-empty file.
C7_Witness ==
  /\ poll.pc = "returned"
  /\ attempts >= 3
  /\ lastRead.exists
  /\ Len(lastRead.data) > 0
  /\ poll.buffer = [set |-> TRUE, data |-> lastRead.data]

----------------------------------------------------------------------------
(* Properties of save states *)

\* the host supplied savestate_thumbnail_enable: true
thumbnailEnabled == Lookup(supplied, ThumbnailKey) = JsBoolean(TRUE)

\* C8: for a launched session, saveState() waits for the thumbnail file, and
\* returns a thumbnail, exactly when the configuration the host supplied has
\* savestate_thumbnail_enable true; when it is disabled the call waits for the
\* state file alone and returns no thumbnail
C8_ThumbnailWhenEnabled ==
  \A k \in CallSlots :
    calls[k].op = "save" =>
      /\ calls[k].pc = "polling" => (calls[k].waitsThumbnail <=> thumbnailEnabled)
      /\ calls[k].result.kind = "resolved" =>
           (calls[k].result.thumbnail.set <=> thumbnailEnabled)

\* neither the state file nor the thumbnail file is there after the step
noStateFiles ==
  /\ ~Visible(stateFile'[emscripten], mounted'[emscripten]).exists
  /\ ~Visible(thumbFile'[emscripten], mounted'[emscripten]).exists

\* C9: in the step of saveState() that enqueues SAVE_STATE, neither the state
\* file nor the thumbnail file is left, whatever files were there before the
\* call; and in the step in which saveState() resolves, neither file is left
C9_ClearedAroundSave ==
  [][ /\ (SaveCall(1) /\ Len(messageQueue') > Len(messageQueue)) => noStateFiles
      /\ ((\E which \in {"state", "thumbnail"} : SavePoll(1, which))
            /\ calls'[1].result.kind = "resolved") => noStateFiles
    ]_vars

\* C10: a step enqueues LOAD_STATE only as the last step of a loadState() call
\* that has written the supplied bytes to the state path and whose poller
\* declares the file stable in this step; the step enqueues LOAD_STATE once
\* and nothing else, and every loadState() that resolves has such a step
C10_LoadAfterStable ==
  [][ LET app == Appended(messageQueue, messageQueue')
          fs == calls[1].fs
      IN  /\ (\E i \in DOMAIN app : app[i] = Encode("LOAD_STATE")) =>
                /\ app = <<Encode("LOAD_STATE")>>
                /\ calls[1].op = "load"
                /\ calls[1].wrote
                /\ calls[1].p1.pc = "delay"
                /\ pollAttempt(calls[1].p1,
                               Visible(stateFile[fs], mounted[fs])).isFinished
                /\ calls'[1].result.kind = "resolved"
          /\ (calls[1].op = "load" /\ calls[1].pc # "idle"
                /\ calls'[1].result.kind = "resolved") =>
                app = <<Encode("LOAD_STATE")>>
    ]_vars

\* C10 witness: a loadState() has resolved and its LOAD_STATE is the last
\* command in the queue
C10_Witness ==
  /\ calls[1].op = "load"
  /\ calls[1].result.kind = "resolved"
  /\ calls[1].wrote
  /\ messageQueue # <<>>
  /\ messageQueue[Len(messageQueue)] = <<Encode("LOAD_STATE"), 0>>

----------------------------------------------------------------------------
(* Further properties of the command channel and the controller *)

\* the only command sent so far is PAUSE_TOGGLE, pushed on the empty queue
OnlyToggleSent == sent = <<"PAUSE_TOGGLE">>

\* C18 as stated: after sendCommand('PAUSE_TOGGLE') on an empty queue the
\* first three polls return 'P', 'A', 'U', and null is returned for the first
\* time by the poll made after 15 bytes have been consumed
C18_NullAfterFifteenBytes ==
  [][ (OnlyToggleSent /\ Stdin) =>
        /\ Len(delivered) = 0 => lastByte' = 80
        /\ Len(delivered) = 1 => lastByte' = 65
        /\ Len(delivered) = 2 => lastByte' = 85
        /\ Len(delivered) < 15 => lastByte' # Null
        /\ Len(delivered) = 15 => lastByte' = Null
    ]_vars

\* C18 as amended: 'PAUSE_TOGGLE\n' is 13 bytes; after the send on an empty
\* queue the k-th poll returns its k-th byte ('P', 'A', 'U', ...) for k up to
\* 13, and every later poll returns null
C18_NullAfterThirteenBytes ==
  [][ (OnlyToggleSent /\ Stdin) =>
        /\ Len(Encode("PAUSE_TOGGLE")) = 13
        /\ SubSeq(Encode("PAUSE_TOGGLE"), 1, 3) = <<80, 65, 85>>
        /\ lastByte' = IF Len(delivered) < 13
                       THEN Encode("PAUSE_TOGGLE")[Len(delivered) + 1]
                       ELSE Null
    ]_vars

\* C18 witness: all the bytes of the one PAUSE_TOGGLE have been delivered and
\* the poll after them has returned null
C18_Witness ==
  /\ OnlyToggleSent
  /\ delivered = Encode("PAUSE_TOGGLE")
  /\ messageQueue = <<>>
  /\ lastByte = Null

\* C19: restart() pushes RESET once and leaves the status running whatever
\* the status was; when the status was paused it pushes one PAUSE_TOGGLE
\* after the RESET, and otherwise nothing else
C19_RestartResets ==
  [][ Restart =>
        /\ gameStatus' = "running"
        /\ Appended(messageQueue, messageQueue') =
             IF gameStatus = "paused"
             THEN <<Encode("RESET"), Encode("PAUSE_TOGGLE")>>
             ELSE <<Encode("RESET")>>
    ]_vars

\* C19 witness: a restart() of a paused session has pushed RESET and then
\* PAUSE_TOGGLE
C19_Witness ==
  /\ lastOp.op = "restart"
  /\ gameStatus = "running"
  /\ messageQueue = <<<<Encode("RESET"), 0>>, <<Encode("PAUSE_TOGGLE"), 0>>>>

\* C20: the status leaves initial only as the entry point is invoked: in
\* every state where no entry point has been invoked the status is initial
C20_InitialUntilLaunched == NoMainCalled => gameStatus = "initial"

\* C14: once the host has invoked the done callback of the interaction gate,
\* the entry point has been invoked and the status has become running
C14_DoneStartsProgram ==
  lastOp.op = "done" => (~NoMainCalled /\ gameStatus = "running")

\* C14 (first part): while launch() is held at the gate, the entry point of
\* the module it set up has not been invoked
C14_NoStartBeforeDone ==
  launchPc[1] = "gate" => NoMainCalled

----------------------------------------------------------------------------
(* Further properties of save states *)

SaveInFlight(k) == calls[k].op = "save" /\ calls[k].pc = "polling"

\* C12: two saveState() calls are never in flight together: a second call
\* made while the first is pending is rejected, or does not begin to clear,
\* send and poll until the first has finished
C12_OneSaveAtATime ==
  \A j, k \in CallSlots : (j # k /\ SaveInFlight(j)) => ~SaveInFlight(k)


----------------------------------------------------------------------------
(* Further properties of staging *)

\* the file at fileName in a directory
fileAt(dir, fileName) == IF fileName \in DOMAIN dir THEN dir[fileName] ELSE NoFile

\* setupFileSystem of launch call l has returned
StagingComplete(l) == launchPc[l] = "deps"

\* C13: after staging completes, the file at content/<fileName> of every ROM
\* and the file at system/<fileName> of every BIOS holds exactly the bytes of
\* that asset's content
C13_StagedEqualsSource ==
  \A l \in LaunchCalls :
    StagingComplete(l) =>
      /\ \A i \in DOMAIN assets.rom :
           fileAt(staged[launchMod[l]].content, assets.rom[i].fileName)
             = FileOf(assets.rom[i].fileContent)
      /\ \A i \in DOMAIN assets.bios :
           fileAt(staged[launchMod[l]].system, assets.bios[i].fileName)
             = FileOf(assets.bios[i].fileContent)

\* the same for lists in which no two files of a list share a name
DistinctNames(list) ==
  \A i, j \in DOMAIN list : list[i].fileName = list[j].fileName => i = j

C13_StagedEqualsSourceDistinct ==
  (DistinctNames(assets.rom) /\ DistinctNames(assets.bios)) => C13_StagedEqualsSource


----------------------------------------------------------------------------
(* Further properties of the state path *)

\* a file name with its extension stripped: what stands before the last dot,
\* and the whole name when there is no dot
Stripped(fileName) ==
  IF \E i \in 1..Len(fileName) : fileName[i] = "."
  THEN LET dot == CHOOSE i \in 1..Len(fileName) :
                    /\ fileName[i] = "."
                    /\ \A j \in (i + 1)..Len(fileName) : fileName[j] # "."
       IN  SubSeq(fileName, 1, dot - 1)
  ELSE fileName

\* <userdata>/states/<coreFullName>/<first ROM file name, extension stripped>.state
CanonicalStatePath ==
  <<"/home/web_user/retroarch/userdata/", "states/", coreFullNameMap(assets.core), "/">>
    \o Stripped(assets.rom[1].fileName) \o <<".state">>

\* the operations that have computed their paths agree on them, and the
\* thumbnail path is the state path plus '.png'
SamePaths ==
  \A op \in DOMAIN paths : paths[op].state # <<>> =>
    /\ \A other \in DOMAIN paths :
         paths[other].state # <<>> => paths[other].state = paths[op].state
    /\ paths[op].thumbnail # <<>> => paths[op].thumbnail = paths[op].state \o <<".png">>

\* C17: the state path every operation targets is
\* <userdata>/states/<coreFullName>/<first ROM file name with its extension
\* stripped>.state, 'pong1k.nes' giving .../pong1k.state; the thumbnail path is
\* that path plus '.png'; clearStateFile, saveState and loadState target the
\* same path
C17_CanonicalStatePath ==
  /\ SamePaths
  /\ \A op \in DOMAIN paths : paths[op].state # <<>> => paths[op].state = CanonicalStatePath

\* the same for a first ROM whose file name has a dot
C17_CanonicalStatePathDotted ==
  (\E i \in DOMAIN assets.rom[1].fileName : assets.rom[1].fileName[i] = ".") =>
    C17_CanonicalStatePath

\* ROM 'pong1k.nes' gives .../pong1k.state
C17_Pong1k ==
  (assets.rom[1].fileName = Pong1k /\ paths["saveState"].state # <<>>) =>
    SubSeq(paths["saveState"].state, 5, Len(paths["saveState"].state))
      = <<"p", "o", "n", "g", "1", "k", ".state">>


----------------------------------------------------------------------------
(* Further properties of cancellation *)

\* no Emulator has been created and no entry point has been called
NothingLaunched ==
  /\ facade.pc \in {"resolving", "rejected"}
  /\ launchCalls = 0
  /\ \A m \in Modules : mainCalls[m] = 0

\* C15: when the signal is aborted while the files are still being resolved,
\* launch() rejects with the 'Launch aborted' error, no Emulator is created
\* and the entry point is never called
C15_LaunchAborted ==
  facade.abortedAt = "resolving" =>
    /\ NothingLaunched
    /\ facade.pc = "rejected" => facade.error = "Launch aborted"

\* C15, amended: launch() rejects with the 'Launch aborted' error once every
\* resolution has completed, and with the error of the resolution that
\* failed otherwise, which for a fetch in flight is the abort error of the
\* signal; no Emulator is created and the entry point is never called
C15_LaunchAbortedOrResolutionError ==
  facade.abortedAt = "resolving" =>
    /\ NothingLaunched
    /\ facade.pc = "rejected" =>
         IF facade.pending = {} THEN facade.error = "Launch aborted"
         ELSE facade.error \in {"AbortError", "file is invalid"}

C15_Witness ==
  /\ facade.abortedAt = "resolving"
  /\ facade.pc = "rejected"
  /\ facade.error = "Launch aborted"

\* C16: when the signal is aborted after the files have been resolved and
\* before the entry point is called, during module instantiation or staging,
\* the entry point is not called and launch() fails with a cancellation error
C16_NoStartAfterAbort ==
  facade.abortedAt \in {"options", "launching"} =>
    /\ \A m \in Modules : mainCalls[m] = 0
    /\ gameStatus = "initial"

\* the part of it that checkIsAborted() in launch() gives: aborted before loadEmulator()
C16_NoStartAfterAbortBeforeLoad ==
  facade.abortedAt = "options" =>
    /\ NothingLaunched \/ facade.pc = "options"
    /\ facade.pc = "rejected" => facade.error = "Launch aborted"


----------------------------------------------------------------------------
(* Further properties of the configuration file *)

\* one line key = "value" per entry, the value being the text of the entry's
\* value whatever its type
Quoted(config) ==
  [i \in DOMAIN config |->
     config[i].key \o <<" ", "=", " ", "\"">> \o config[i].value.text \o <<"\"">>]

\* C21: the configuration file written holds, for every entry of the mapping
\* the host supplied, exactly one line key = "value" with the value in double
\* quotes whatever its type; {a: true, b: 4, c: "x"} gives a = "true",
\* b = "4", c = "x"
C21_OneQuotedLinePerEntry ==
  \A m \in Modules : cfgFile[m].exists => cfgFile[m].lines = Quoted(supplied)

\* no value of the mapping has two underscores in a row
PlainValues(config) ==
  \A i \in DOMAIN config :
    \A j \in 1..(Len(config[i].value.text) - 1) :
      ~(config[i].value.text[j] = "_" /\ config[i].value.text[j + 1] = "_")

\* the same for the first launch() of a mapping with such values
C21_OneQuotedLinePerEntryFirstPlain ==
  (launchCalls <= 1 /\ PlainValues(supplied)) => C21_OneQuotedLinePerEntry

\* C28: writing the configuration file leaves the mapping of the host as it
\* was: every value of options.retroarch is the value, of the type, it was
\* before launch()
C28_ConfigUnchanged == retroarch = supplied


----------------------------------------------------------------------------
(* Further properties of the poller and of the calls that await it *)

\* the read the poller of call k is about to make exceeds the retry ceiling
TimesOut(k, which) ==
  LET fs == calls[k].fs
  IN  /\ calls[k].pc = "polling"
      /\ IF which = "state"
         THEN pollAttempt(calls[k].p1, Visible(stateFile[fs], mounted[fs])).pc = "thrown"
         ELSE pollAttempt(calls[k].p2, Visible(thumbFile[fs], mounted[fs])).pc = "thrown"

\* a call rejected with 'fs timeout', holding no payload
TimedOut(call) ==
  /\ call.result.kind = "rejected"
  /\ call.result.error = "fs timeout"
  /\ call.result.state = <<>>
  /\ ~call.result.thumbnail.set

\* C22: when a poller of saveState() or of loadState() exceeds its retry
\* ceiling, the call rejects with 'fs timeout' and does not resolve; the
\* loadState() enqueues no LOAD_STATE and the saveState() returns no payload
C22_TimeoutRejects ==
  [][ /\ \A which \in {"state", "thumbnail"} :
           (TimesOut(1, which) /\ SavePoll(1, which)) => TimedOut(calls'[1])
      /\ (TimesOut(1, "state") /\ LoadPoll(1)) =>
           (TimedOut(calls'[1]) /\ messageQueue' = messageQueue)
    ]_vars

C22_Witness ==
  /\ calls[1].op = "save"
  /\ TimedOut(calls[1])

\* C23: the poller declares the file stable only when the read it has just
\* made returned the very bytes of the read before it; it never returns after
\* two reads of equal length whose bytes differ
C23_ByteIdenticalReads ==
  [][ DeclaresReady =>
        /\ lastGood.exists
        /\ pfile.exists
        /\ lastGood.data = pfile.data
    ]_vars


(***************************************************************************)
(* Further properties of launch()                                          *)
(***************************************************************************)

\* every ROM and BIOS of the options has a file in the directories of module m
AllStaged(m) ==
  /\ \A i \in DOMAIN assets.rom : fileAt(staged[m].content, assets.rom[i].fileName) # NoFile
  /\ \A i \in DOMAIN assets.bios : fileAt(staged[m].system, assets.bios[i].fileName) # NoFile

FirstRomArgs ==
  IF assets.rom = <<>>
  THEN <<>>
  ELSE <<<<"/home/web_user/retroarch/userdata/content/">> \o assets.rom[1].fileName>>

\* C24: the entry point of a module has been invoked only when every ROM and
\* BIOS asset is staged in that module and its retroarch.cfg is written, and
\* the arguments passed are the content path of the first ROM, or none when no
\* ROM was supplied
C24_MainAfterStaging ==
  \A m \in Modules :
    mainCalls[m] > 0 =>
      /\ AllStaged(m)
      /\ cfgFile[m].exists
      /\ mainArgs[m] = FirstRomArgs

\* the entry point has been invoked with the path of a supplied ROM
C24_Witness ==
  \E m \in Modules :
    /\ mainCalls[m] > 0
    /\ assets.rom # <<>>
    /\ mainArgs[m] = FirstRomArgs
    /\ AllStaged(m)


\* C25: no ROM or BIOS is written into the filesystem of a module before that
\* module has finished instantiating: a module that holds a staged file has
\* Module.asm set
C25_NoStagingBeforeAsm ==
  \A m \in Modules : staged[m] # NoDirectories => asm[m]


\* min(100 * 2^k, 1000); the power is not taken past 2^4, where the product
\* is already over the ceiling
BackoffSchedule(k) ==
  LET p == 100 * 2 ^ (IF k < 4 THEN k ELSE 4)
  IN  IF p < 1000 THEN p ELSE 1000

\* C26: the wait that ends with the k-th read attempt (k = 0, 1, 2, ...) is
\* min(100 * 2^k, 1000), i.e. 100, 200, 400, 800, 1000, 1000, ...; it is at
\* most 1000, and the wait that follows it is not shorter
C26_BackoffSchedule ==
  [][ PollAttempt =>
        /\ poll.delay = BackoffSchedule(poll.retryTimes)
        /\ poll.retryTimes < 5 => poll.delay = <<100, 200, 400, 800, 1000>>[poll.retryTimes + 1]
        /\ poll.delay <= 1000
        /\ poll'.pc = "delay" => poll'.delay >= poll.delay ]_vars

\* the poller is in its sixth wait, the second one at the ceiling
C26_Witness ==
  /\ poll.pc = "delay"
  /\ poll.retryTimes = 5
  /\ poll.delay = 1000


(***************************************************************************)
(* Further properties of the command channel                               *)
(***************************************************************************)

\* C27: at most one entry of the queue is partially consumed and it is the
\* front one: every entry behind the front has index 0, and every index is
\* between 0 and the length of its bytes
C27_OnlyFrontInProgress ==
  /\ \A i \in DOMAIN messageQueue :
       /\ messageQueue[i][2] >= 0
       /\ messageQueue[i][2] <= Len(messageQueue[i][1])
  /\ \A i \in DOMAIN messageQueue : i > 1 => messageQueue[i][2] = 0

\* the front entry is partly read while another command waits behind it
C27_Witness ==
  /\ Len(messageQueue) >= 2
  /\ messageQueue[1][2] > 0
  /\ messageQueue[1][2] < Len(messageQueue[1][1])
  /\ delivered # <<>>


(***************************************************************************)
(* Further properties of pause(), resume() and restart()                   *)
(***************************************************************************)

\* the PAUSE_TOGGLE commands a step pushes on the queue
TogglesPushed ==
  LET pushed == Appended(messageQueue, messageQueue')
  IN  Cardinality({i \in DOMAIN pushed : pushed[i] = Encode("PAUSE_TOGGLE")})

\* C29: the status agrees with the pause toggles issued: the number of
\* PAUSE_TOGGLE commands enqueued so far is odd exactly when the status is
\* paused. No toggle is enqueued before the first step and the status starts
\* as initial, so this says that every step pushes an odd number of toggles
\* exactly when it takes the status to or from paused
C29_TogglesMatchStatus ==
  [][ (TogglesPushed % 2 = 1) <=> ((gameStatus = "paused") # (gameStatus' = "paused")) ]_vars


\* C30: while the program keeps polling stdin, every command enqueued is
\* eventually delivered completely, all its bytes and the newline that ends
\* it, after the commands enqueued before it; and when no further command is
\* sent the queue is eventually empty and stdin returns null from then on
C30_EverythingDelivered ==
  /\ \A n \in 1..MaxSent :
       (Len(sent) >= n) ~> (Len(sent) >= n /\ IsPrefix(Concat(SubSeq(sent, 1, n)), delivered))
  /\ \A n \in 0..MaxSent :
       <>[](Len(sent) = n) => <>[](messageQueue = <<>> /\ lastByte = Null)

\* two commands were sent and read to the end, and stdin has answered null
C30_Witness ==
  /\ Len(sent) >= 2
  /\ delivered = Concat(sent)
  /\ messageQueue = <<>>
  /\ lastByte = Null


(***************************************************************************)
(* Further properties of the state path                                    *)
(***************************************************************************)

\* the base name in a state path: what stands between the directory of the
\* core and '.state'
BaseNameIn(path) == SubSeq(path, 5, Len(path) - 1)

Dots(fileName) == {i \in DOMAIN fileName : fileName[i] = "."}

\* the file name up to, and without, its last dot
BeforeLastDot(fileName) ==
  SubSeq(fileName, 1, (CHOOSE i \in Dots(fileName) : \A j \in Dots(fileName) : j <= i) - 1)

\* for a name with dots, the base name is the name without its last dot and
\* what follows it
C31_LastDotOnly ==
  \A op \in DOMAIN paths :
    (paths[op].state # <<>> /\ Dots(assets.rom[1].fileName) # {}) =>
      BaseNameIn(paths[op].state) = BeforeLastDot(assets.rom[1].fileName)

\* C31: for a first ROM whose file name has no '.', the base name in the state
\* path is the whole file name, no character dropped; for a name with several
\* dots only the part after the last dot is removed
C31_BaseNameKeepsDotlessName ==
  /\ C31_LastDotOnly
  /\ \A op \in DOMAIN paths :
       (paths[op].state # <<>> /\ Dots(assets.rom[1].fileName) = {}) =>
         BaseNameIn(paths[op].state) = assets.rom[1].fileName

====
